---- MODULE Spec2Model ----
(***************************************************************************)
(* Model of retryable.retry: the wrapper built by retry(...)(f) and one    *)
(* call of it (src/retryable/__init__.py:137-261).  Spec is one call,      *)
(* SpecSeq a sequence of calls, SpecConc two calls on two threads, and     *)
(* LiveSpec one call under fairness.                                       *)
(*                                                                         *)
(* The wrapped function f and the _retry_callback are the environment: at  *)
(* each attempt f either returns or raises one of the exception objects of *)
(* Exceptions, and the callback answers by the object it is handed.  A     *)
(* failure is an instance of Exception, which is what line 180 catches.    *)
(* Delays and backoffs are integers, so the arithmetic is exact.           *)
(***************************************************************************)
EXTENDS Integers, Sequences, FiniteSets

\* ---- bounds -------------------------------------------------------------
MaxCount == 3
MaxBackoff == 3
MaxDelay == 1
MaxOverrides == 1
MaxCalls == 2
MaxSeqCount == 1

\* ---- program constants (lines 10-12) ------------------------------------
DEFAULT_RETRY_COUNT == 3
DEFAULT_RETRY_BACKOFF == 2
DEFAULT_RETRY_DELAY == 1

\* ---- values -------------------------------------------------------------
\* An optional value is <<>> (absent, unbound) or <<v>>.
Opt(S) == {<<>>} \cup {<<v>> : v \in S}

Counts == (-1 .. MaxCount) \cup {DEFAULT_RETRY_COUNT}
Backoffs == (1 .. MaxBackoff) \cup {DEFAULT_RETRY_BACKOFF}
Delays == (-1 .. MaxDelay) \cup {DEFAULT_RETRY_DELAY}
Callbacks == {"None", "retry_filter"}

\* The exception objects f can raise, and the one the callback raises.
Exceptions == {"e1", "e2", "e3", "e4"}
CallbackExc == "callback_exc"
UnboundLocalError == "UnboundLocalError"

\* type(e) of each exception object.
TypeOf == [e \in Exceptions |->
             CASE e = "e1" -> "MsgError"
               [] e = "e2" -> "RuntimeError"
               [] e = "e3" -> "OSError"
               [] e = "e4" -> "OSError"]

\* The classes a class derives from, itself included.
Mro == [t \in {"MsgError", "RuntimeError", "OSError"} |->
          CASE t = "MsgError" -> {"MsgError", "RuntimeError", "Exception"}
            [] t = "RuntimeError" -> {"RuntimeError", "Exception"}
            [] t = "OSError" -> {"OSError", "Exception"}]

isinstance(e, cls) == cls \in Mro[TypeOf[e]]

\* What _retry_callback(e) does: returns True, returns False, or raises.
retry_filter == [e \in Exceptions |->
                   CASE e = "e1" -> "true"
                     [] e = "e2" -> "false"
                     [] e = "e3" -> "raise"
                     [] e = "e4" -> "true"]

NoRetryLists == { <<>>,
                  <<"AttributeError", "OSError">>,
                  <<"RuntimeError">>,
                  <<"Exception">> }

\* kwargs of one call: the retry keywords it supplies.
Supplied(kw) == (IF kw._retry_count = <<>> THEN 0 ELSE 1)
              + (IF kw._retry_backoff = <<>> THEN 0 ELSE 1)
              + (IF kw._retry_delay = <<>> THEN 0 ELSE 1)
              + (IF kw._retry_callback = <<>> THEN 0 ELSE 1)

Kwargs == {kw \in [_retry_count : Opt(Counts),
                   _retry_backoff : Opt(Backoffs),
                   _retry_delay : Opt(Delays),
                   _retry_callback : Opt(Callbacks)] :
             Supplied(kw) <= MaxOverrides}

\* a call that supplies no retry keyword
NoKwargs == [_retry_count |-> <<>>, _retry_backoff |-> <<>>,
             _retry_delay |-> <<>>, _retry_callback |-> <<>>]

VARIABLES
  \* closure of retry(...): lines 15-19
  no_retry_list, count, backoff, delay, callback,
  \* locals of wrapper: lines 144-169, 181
  _retry_count, _retry_backoff, _retry_delay, _retry_callback,
  current_delay, try_count, current_try, caught_exc, last_exc,
  \* position of the call in wrapper, and what its caller got
  pc, outcome,
  \* the retry_count attribute of each exception object
  retry_count,
  \* what the call did: results of f, arguments of the callback, sleeps
  f_calls, callback_calls, sleeps,
  \* the retry keywords the call was given, the retry_count values the call
  \* itself has written, and the keywords of the calls that are over
  kwargs, written, past_calls,
  \* a second call of the same wrapper, running concurrently
  other

closure == <<no_retry_list, count, backoff, delay, callback>>
locals == <<_retry_count, _retry_backoff, _retry_delay, _retry_callback,
            current_delay, try_count, current_try, caught_exc, last_exc>>
vars == <<no_retry_list, count, backoff, delay, callback,
          _retry_count, _retry_backoff, _retry_delay, _retry_callback,
          current_delay, try_count, current_try, caught_exc, last_exc,
          pc, outcome, retry_count, f_calls, callback_calls, sleeps,
          kwargs, written, past_calls, other>>

\* ---- helpers translated from wrapper ------------------------------------
\* kwargs.pop(key, default)
pop_m(supplied, default) == default
pop(supplied, default) == IF supplied = <<>> THEN default ELSE supplied[1]

\* lines 157-161: the two ValueError checks
InvalidArgs_m(rc, rb, rd) == rc > 0 /\ (rb < 1 \/ rd < 0)
InvalidArgs(rc, rb, rd) == rc > 0 /\ (rb <= 1 \/ rd < 0)

\* lines 157-166
TryCount_m(rc) == IF rc > 0 THEN rc ELSE 1
TryCount(rc) == IF rc > 0 THEN rc + 1 ELSE 1

\* line 189
Done_m(ct, tc) == ct > tc
Done(ct, tc) == ct >= tc

\* lines 193-197
InNoRetryList_m(e, nrl) ==
  /\ nrl # <<>>
  /\ Cardinality({i \in DOMAIN nrl : TypeOf[e] = nrl[i]}) > 0
InNoRetryList(e, nrl) ==
  /\ nrl # <<>>
  /\ Cardinality({i \in DOMAIN nrl : isinstance(e, nrl[i])}) > 0

\* lines 209-230: what wrapper does with the callback's answer
Decision_m(answer) ==
  CASE answer = "raise" -> "raise_caught_exc"
    [] answer = "false" -> "raise_caught_exc"
    [] answer = "true" -> "retry"
Decision(answer) ==
  CASE answer = "raise" -> "raise_callback_exc"
    [] answer = "false" -> "raise_caught_exc"
    [] answer = "true" -> "retry"

\* line 248
NextDelay_m(cd, rb) == cd + rb
NextDelay(cd, rb) == cd * rb

\* line 254
Annotation(ct) == <<ct>>

Returned == [kind |-> "returned", exc |-> "none"]
Raised(e) == [kind |-> "raised", exc |-> e]
ValueError == [kind |-> "ValueError", exc |-> "none"]
Running == [kind |-> "running", exc |-> "none"]

\* the second call before it is made
\* (concurrent: it was made while the first call was running)
OtherIdle == [pc |-> "idle", _retry_callback |-> "None", try_count |-> 0,
              current_try |-> 0, caught_exc |-> "none",
              concurrent |-> FALSE]

\* ---- initial state: the function has been wrapped -----------------------
Init ==
  /\ no_retry_list \in NoRetryLists
  /\ count \in Counts
  /\ backoff \in Backoffs
  /\ delay \in Delays
  /\ callback \in Callbacks
  /\ _retry_count = 0 /\ _retry_backoff = 0 /\ _retry_delay = 0
  /\ _retry_callback = "None"
  /\ current_delay = <<>> /\ try_count = 0 /\ current_try = 0
  /\ caught_exc = "none" /\ last_exc = "none"
  /\ pc = "idle" /\ outcome = Running
  /\ retry_count = [e \in Exceptions |-> <<>>]
  /\ f_calls = <<>> /\ callback_calls = <<>> /\ sleeps = <<>>
  /\ kwargs = NoKwargs
  /\ written = [e \in Exceptions |-> <<>>]
  /\ past_calls = <<>>
  /\ other = OtherIdle

\* ---- wrapper(*args, **kwargs), lines 139-169 ----------------------------
Call(kw) ==
  /\ pc = "idle"
  /\ LET rc == pop(kw._retry_count, count)
         rb == pop(kw._retry_backoff, backoff)
         rd == pop(kw._retry_delay, delay)
         cb == pop(kw._retry_callback, callback)
     IN /\ _retry_count' = rc
        /\ _retry_backoff' = rb
        /\ _retry_delay' = rd
        /\ _retry_callback' = cb
        /\ IF InvalidArgs(rc, rb, rd)
             THEN /\ outcome' = ValueError
                  /\ pc' = "done"
                  /\ UNCHANGED <<current_delay, try_count, current_try>>
             ELSE /\ current_delay' = IF rc > 0 THEN <<rd>> ELSE <<>>
                  /\ try_count' = TryCount(rc)
                  /\ current_try' = 1
                  /\ pc' = "try"
                  /\ UNCHANGED outcome
  /\ kwargs' = kw
  /\ UNCHANGED <<closure, caught_exc, last_exc, retry_count,
                 f_calls, callback_calls, sleeps, written, past_calls,
                 other>>

\* ---- lines 172-190: f(*args, **kwargs) returns --------------------------
AttemptReturns_m ==
  /\ pc = "try"
  /\ f_calls' = Append(f_calls, "ok")
  /\ pc' = IF Done(current_try, try_count) THEN "done" ELSE "sleep"
  /\ outcome' = IF Done(current_try, try_count) THEN Returned ELSE outcome
  /\ UNCHANGED <<closure, locals, retry_count, callback_calls, sleeps,
                 kwargs, written, past_calls, other>>
AttemptReturns ==
  /\ pc = "try"
  /\ f_calls' = Append(f_calls, "ok")
  /\ outcome' = Returned
  /\ pc' = "done"
  /\ UNCHANGED <<closure, locals, retry_count, callback_calls, sleeps,
                 kwargs, written, past_calls, other>>

\* ---- lines 172-190: f raises e, caught; leave the loop if done ----------
AttemptRaises_m(e) ==
  /\ pc = "try"
  /\ f_calls' = Append(f_calls, e)
  /\ caught_exc' = e
  /\ last_exc' = e
  /\ retry_count' = [retry_count EXCEPT ![e] = Annotation(current_try)]
  /\ written' = [written EXCEPT ![e] = Annotation(current_try)]
  /\ pc' = IF Done(current_try, try_count) THEN "raise_last"
                                           ELSE "no_retry_check"
  /\ UNCHANGED <<closure, _retry_count, _retry_backoff, _retry_delay,
                 _retry_callback, current_delay, try_count, current_try,
                 outcome, callback_calls, sleeps, kwargs, past_calls, other>>
AttemptRaises(e) ==
  /\ pc = "try"
  /\ f_calls' = Append(f_calls, e)
  /\ caught_exc' = e
  /\ last_exc' = e
  /\ pc' = IF Done(current_try, try_count) THEN "raise_last"
                                           ELSE "no_retry_check"
  /\ UNCHANGED <<closure, _retry_count, _retry_backoff, _retry_delay,
                 _retry_callback, current_delay, try_count, current_try,
                 outcome, retry_count, callback_calls, sleeps,
                 kwargs, written, past_calls, other>>

\* ---- lines 192-202: the no_retry_list ----------------------------------
NoRetryCheck ==
  /\ pc = "no_retry_check"
  /\ IF InNoRetryList(caught_exc, no_retry_list)
       THEN outcome' = Raised(caught_exc) /\ pc' = "done"
       ELSE pc' = "callback_check" /\ UNCHANGED outcome
  /\ UNCHANGED <<closure, locals, retry_count, f_calls, callback_calls,
                 sleeps, kwargs, written, past_calls, other>>

\* ---- lines 204-238: the _retry_callback --------------------------------
CallbackCheck ==
  /\ pc = "callback_check"
  /\ IF _retry_callback # "None"
       THEN /\ callback_calls' = Append(callback_calls, caught_exc)
            /\ LET d == Decision(retry_filter[caught_exc])
               IN CASE d = "raise_callback_exc" ->
                         outcome' = Raised(CallbackExc) /\ pc' = "done"
                    [] d = "raise_caught_exc" ->
                         outcome' = Raised(caught_exc) /\ pc' = "done"
                    [] d = "retry" ->
                         pc' = "sleep" /\ UNCHANGED outcome
       ELSE pc' = "sleep" /\ UNCHANGED <<outcome, callback_calls>>
  /\ UNCHANGED <<closure, locals, retry_count, f_calls, sleeps,
                 kwargs, written, past_calls, other>>

\* ---- lines 240-245: time.sleep(current_delay) --------------------------
\* Reading current_delay while it is unbound raises UnboundLocalError.
Sleep ==
  /\ pc = "sleep"
  /\ IF current_delay = <<>>
       THEN /\ outcome' = Raised(UnboundLocalError)
            /\ pc' = "done"
            /\ UNCHANGED sleeps
       ELSE /\ sleeps' = Append(sleeps, current_delay[1])
            /\ pc' = "backoff"
            /\ UNCHANGED outcome
  /\ UNCHANGED <<closure, locals, retry_count, f_calls, callback_calls,
                 kwargs, written, past_calls, other>>

\* ---- lines 247-254: longer delay, next try, annotate the exception -----
Backoff ==
  /\ pc = "backoff"
  /\ current_delay' = <<NextDelay(current_delay[1], _retry_backoff)>>
  /\ current_try' = current_try + 1
  /\ retry_count' = [retry_count EXCEPT
                       ![caught_exc] = Annotation(current_try + 1)]
  /\ written' = [written EXCEPT
                   ![caught_exc] = Annotation(current_try + 1)]
  /\ pc' = "try"
  /\ UNCHANGED <<closure, _retry_count, _retry_backoff, _retry_delay,
                 _retry_callback, try_count, caught_exc, last_exc,
                 outcome, f_calls, callback_calls, sleeps,
                 kwargs, past_calls, other>>

\* ---- lines 256-259: raise last_exc --------------------------------------
RaiseLast_m ==
  /\ pc = "raise_last"
  /\ outcome' = Raised(f_calls[1])
  /\ pc' = "done"
  /\ UNCHANGED <<closure, locals, retry_count, f_calls, callback_calls,
                 sleeps, kwargs, written, past_calls, other>>
RaiseLast_sleeps ==
  /\ pc = "raise_last"
  /\ outcome' = Raised(last_exc)
  /\ sleeps' = IF current_delay = <<>> THEN sleeps
                ELSE Append(sleeps, current_delay[1])
  /\ pc' = "done"
  /\ UNCHANGED <<closure, locals, retry_count, f_calls, callback_calls,
                 kwargs, written, past_calls, other>>
RaiseLast ==
  /\ pc = "raise_last"
  /\ outcome' = Raised(last_exc)
  /\ pc' = "done"
  /\ UNCHANGED <<closure, locals, retry_count, f_calls, callback_calls,
                 sleeps, kwargs, written, past_calls, other>>

Next ==
  \/ \E kw \in Kwargs : Call(kw)
  \/ AttemptReturns
  \/ \E e \in Exceptions : AttemptRaises(e)
  \/ NoRetryCheck
  \/ CallbackCheck
  \/ Sleep
  \/ Backoff
  \/ RaiseLast

Spec == Init /\ [][Next]_vars

\* ---- a sequence of calls of one wrapper ---------------------------------
\* The call is over (line 177 or a raise): its frame is gone, the closure
\* and the exception objects stay, and the wrapper can be called again.
Return ==
  /\ pc = "done"
  /\ Len(past_calls) < MaxCalls - 1
  /\ past_calls' = Append(past_calls, kwargs)
  /\ kwargs' = NoKwargs
  /\ _retry_count' = 0 /\ _retry_backoff' = 0 /\ _retry_delay' = 0
  /\ _retry_callback' = "None"
  /\ current_delay' = <<>> /\ try_count' = 0 /\ current_try' = 0
  /\ caught_exc' = "none" /\ last_exc' = "none"
  /\ pc' = "idle" /\ outcome' = Running
  /\ f_calls' = <<>> /\ callback_calls' = <<>> /\ sleeps' = <<>>
  /\ written' = [e \in Exceptions |-> <<>>]
  /\ UNCHANGED <<closure, retry_count, other>>

\* the objects f raises when the wrapper is called more than once
SharedExceptions == {"e1", "e2"}

\* calls that ask for at most MaxSeqCount retries
SeqKwargs == {kw \in Kwargs :
                kw._retry_count = <<>> \/ kw._retry_count[1] <= MaxSeqCount}

InitSeq == Init /\ count <= MaxSeqCount

NextSeq ==
  \/ \E kw \in SeqKwargs : Call(kw)
  \/ AttemptReturns
  \/ \E e \in SharedExceptions : AttemptRaises(e)
  \/ NoRetryCheck
  \/ CallbackCheck
  \/ Sleep
  \/ Backoff
  \/ RaiseLast
  \/ Return

SpecSeq == InitSeq /\ [][NextSeq]_vars

\* ---- one call whose steps all return -----------------------------------
\* f, the callback and time.sleep return, and the thread keeps running.
\* The wrapper was built with the default backoff and delay.
LiveInit ==
  Init /\ backoff = DEFAULT_RETRY_BACKOFF /\ delay = DEFAULT_RETRY_DELAY

LiveSpec == LiveInit /\ [][Next]_vars /\ WF_vars(Next)

\* ---- a second call of the same wrapper, on another thread ---------------
\* It runs the same code on its own frame (the record other); what it
\* shares with the first call is the closure and the exception objects.
thisCall == <<locals, pc, outcome, f_calls, callback_calls, sleeps, kwargs,
              written, past_calls>>

\* lines 139-169
OtherCall(kw) ==
  /\ other.pc = "idle"
  /\ LET rc == pop(kw._retry_count, count)
         rb == pop(kw._retry_backoff, backoff)
         rd == pop(kw._retry_delay, delay)
         cb == pop(kw._retry_callback, callback)
         cc == pc \notin {"idle", "done"}
     IN other' = IF InvalidArgs(rc, rb, rd)
                   THEN [other EXCEPT !.pc = "done", !.concurrent = cc]
                   ELSE [pc |-> "try", _retry_callback |-> cb,
                         try_count |-> TryCount(rc), current_try |-> 1,
                         caught_exc |-> "none", concurrent |-> cc]
  /\ UNCHANGED <<closure, thisCall, retry_count>>

\* lines 172-177: f returns
OtherAttemptReturns ==
  /\ other.pc = "try"
  /\ other' = [other EXCEPT !.pc = "done"]
  /\ UNCHANGED <<closure, thisCall, retry_count>>

\* lines 172-238: f raises e; the call ends there unless e is to be retried
OtherAttemptRaises(e) ==
  /\ other.pc = "try"
  /\ LET ends ==
           \/ Done(other.current_try, other.try_count)
           \/ InNoRetryList(e, no_retry_list)
           \/ /\ other._retry_callback # "None"
              /\ Decision(retry_filter[e]) # "retry"
     IN other' = [other EXCEPT !.caught_exc = e,
                               !.pc = IF ends THEN "done" ELSE "sleep"]
  /\ UNCHANGED <<closure, thisCall, retry_count>>

\* lines 240-254: sleep, next try, annotate the exception
OtherRetry ==
  /\ other.pc = "sleep"
  /\ retry_count' = [retry_count EXCEPT ![other.caught_exc] =
                       Annotation(other.current_try + 1)]
  /\ other' = [other EXCEPT !.current_try = other.current_try + 1,
                            !.pc = "try"]
  /\ UNCHANGED <<closure, thisCall>>

NextConc ==
  \/ \E kw \in SeqKwargs : Call(kw)
  \/ AttemptReturns
  \/ \E e \in SharedExceptions : AttemptRaises(e)
  \/ NoRetryCheck
  \/ CallbackCheck
  \/ Sleep
  \/ Backoff
  \/ RaiseLast
  \/ \E kw \in SeqKwargs : OtherCall(kw)
  \/ OtherAttemptReturns
  \/ \E e \in SharedExceptions : OtherAttemptRaises(e)
  \/ OtherRetry

SpecConc == InitSeq /\ [][NextConc]_vars

\* ---- vocabulary of the properties ---------------------------------------
TypeOK ==
  /\ pc \in {"idle", "try", "no_retry_check", "callback_check", "sleep",
             "backoff", "raise_last", "done"}
  /\ Len(current_delay) <= 1
  /\ \A e \in Exceptions : Len(retry_count[e]) <= 1
  /\ outcome.kind \in {"running", "returned", "raised", "ValueError"}

Finished == pc = "done"
Validated == pc # "idle" /\ outcome # ValueError

\* every attempt made so far has failed
AllFail == \A i \in DOMAIN f_calls : f_calls[i] # "ok"
NoDenyList == no_retry_list = <<>>
NoPredicate == _retry_callback = "None"
LastOf(seq) == seq[Len(seq)]

\* e is an instance of some entry of the deny-list
DenyListed(e) == \E i \in DOMAIN no_retry_list :
                   no_retry_list[i] \in Mro[TypeOf[e]]
AllDenyListed == \A i \in DOMAIN f_calls :
                   f_calls[i] # "ok" /\ DenyListed(f_calls[i])
NoneDenyListed == \A i \in DOMAIN f_calls :
                    f_calls[i] # "ok" => ~DenyListed(f_calls[i])

\* the predicate's answer to the failure of attempt i
AnswerAt(i) == IF f_calls[i] = "ok" THEN "none" ELSE retry_filter[f_calls[i]]
AllAnswer(a) == \A i \in DOMAIN f_calls : AnswerAt(i) = a
\* the predicate answers true to the failures of attempts 1..k-1, false to k
FirstFalseAt(k) ==
  /\ k \in DOMAIN f_calls
  /\ \A i \in 1 .. (k - 1) : AnswerAt(i) = "true"
  /\ AnswerAt(k) = "false"

RECURSIVE Pow(_, _)
Pow(b, n) == IF n = 0 THEN 1 ELSE b * Pow(b, n - 1)

\* ---- C1 -----------------------------------------------------------------
\* C1: with maxAttempts = n >= 0, valid backoff and delay, no deny-list and
\* no predicate, a call whose every attempt fails invokes the operation
\* exactly n + 1 times and then raises the failure of the last attempt.
C1_AlwaysFailing ==
  /\ (Validated /\ _retry_count >= 0 /\ NoDenyList /\ NoPredicate)
       => Len(f_calls) <= _retry_count + 1
  /\ (Finished /\ Validated /\ _retry_count >= 0 /\ NoDenyList
        /\ NoPredicate /\ AllFail)
       => /\ Len(f_calls) = _retry_count + 1
          /\ outcome = Raised(LastOf(f_calls))

C1_Witness ==
  /\ Finished /\ Validated /\ NoDenyList /\ NoPredicate /\ AllFail
  /\ _retry_count >= 2
  /\ Len(f_calls) = _retry_count + 1
  /\ outcome.kind = "raised"

C3_AsStated ==
  (Finished /\ Validated /\ _retry_count >= 0 /\ NoDenyList
     /\ ~NoPredicate /\ AllAnswer("false"))
    => Len(f_calls) = 1 /\ Len(callback_calls) = 1

\* C3 amended: if the predicate answers false to every failure, the
\* operation always fails and no failure matches the deny-list, the operation
\* is invoked exactly once; the predicate is invoked exactly once when
\* maxAttempts >= 1 and not at all when maxAttempts <= 0.
C3_PredicateFalse ==
  (Finished /\ Validated /\ NoneDenyListed /\ ~NoPredicate
     /\ AllAnswer("false"))
    => /\ Len(f_calls) = 1
       /\ Len(callback_calls) = IF _retry_count >= 1 THEN 1 ELSE 0
       /\ outcome = Raised(f_calls[1])

C3_Witness ==
  /\ Finished /\ Validated /\ NoneDenyListed /\ ~NoPredicate
  /\ AllAnswer("false")
  /\ _retry_count >= 2
  /\ callback_calls = f_calls
  /\ Len(f_calls) = 1

\* ---- C4 -----------------------------------------------------------------
\* C4 as stated: for every k with 1 <= k <= maxAttempts + 1, if the
\* operation always fails and the predicate answers true to the failures of
\* attempts 1..k-1 and false to the failure of attempt k, the operation is
\* invoked exactly k times and the predicate exactly k times.
C4_AsStated ==
  (Finished /\ Validated /\ _retry_count >= 0 /\ NoDenyList
     /\ ~NoPredicate /\ AllFail)
    => \A k \in 1 .. (_retry_count + 1) :
         FirstFalseAt(k) => Len(f_calls) = k /\ Len(callback_calls) = k

\* C4 amended: under the same conditions (and no failure matching the
\* deny-list) the operation is invoked exactly k times; the predicate is
\* invoked exactly k times when k <= maxAttempts and exactly k - 1 times
\* when k = maxAttempts + 1.
C4_FirstFalse ==
  (Finished /\ Validated /\ _retry_count >= 0 /\ NoneDenyListed
     /\ ~NoPredicate /\ AllFail)
    => \A k \in 1 .. (_retry_count + 1) :
         FirstFalseAt(k)
           => /\ Len(f_calls) = k
              /\ Len(callback_calls) =
                   IF k <= _retry_count THEN k ELSE k - 1

C4_Witness ==
  /\ Finished /\ Validated /\ NoneDenyListed /\ ~NoPredicate /\ AllFail
  /\ _retry_count >= 2
  /\ FirstFalseAt(2)
  /\ Len(f_calls) = 2
  /\ Len(callback_calls) = 2

\* ---- C5 -----------------------------------------------------------------
\* C5: with maxAttempts = n >= 1, no deny-list, an operation that always
\* fails and a predicate that answers true to every failure, the operation
\* is invoked exactly n + 1 times and the predicate exactly n times.
C5_PredicateTrue ==
  (Finished /\ Validated /\ _retry_count >= 1 /\ NoDenyList
     /\ ~NoPredicate /\ AllAnswer("true"))
    => /\ Len(f_calls) = _retry_count + 1
       /\ Len(callback_calls) = _retry_count

C5_Witness ==
  /\ Finished /\ Validated /\ NoDenyList /\ ~NoPredicate
  /\ AllAnswer("true")
  /\ _retry_count = DEFAULT_RETRY_COUNT
  /\ Len(f_calls) = 4
  /\ Len(callback_calls) = 3

\* ---- C6 -----------------------------------------------------------------
\* C6: once the predicate has raised, the call is over with the predicate's
\* failure as its outcome: the predicate was handed the failure of the last
\* attempt, it had not raised before, and nothing was slept after it.
PredicateRaised ==
  /\ callback_calls # <<>>
  /\ retry_filter[LastOf(callback_calls)] = "raise"

C6_PredicateRaises ==
  PredicateRaised
    => /\ Finished
       /\ outcome = Raised(CallbackExc)
       /\ LastOf(callback_calls) = LastOf(f_calls)
       /\ Len(sleeps) = Len(f_calls) - 1
       /\ \A i \in 1 .. (Len(callback_calls) - 1) :
            retry_filter[callback_calls[i]] # "raise"

C6_Witness ==
  /\ PredicateRaised
  /\ Finished
  /\ outcome = Raised(CallbackExc)
  /\ Len(f_calls) = 2
  /\ _retry_count >= 3

\* ---- C7 -----------------------------------------------------------------
\* C7: the delay slept before the i-th retry is d * b^(i-1), where d is the
\* effective initial delay and b the effective backoff: the first sleep is
\* d and each later sleep is the previous one multiplied by b.
C7_Backoff ==
  /\ \A i \in DOMAIN sleeps :
       sleeps[i] = _retry_delay * Pow(_retry_backoff, i - 1)
  /\ sleeps # <<>> => sleeps[1] = _retry_delay
  /\ \A i \in 1 .. (Len(sleeps) - 1) :
       sleeps[i + 1] = sleeps[i] * _retry_backoff

C7_Witness ==
  /\ Len(sleeps) >= 3
  /\ _retry_delay = 1
  /\ _retry_backoff = 3
  /\ sleeps[3] = 9

C9_RetryCountAttached ==
  (Finished /\ Validated /\ _retry_count >= 1 /\ NoDenyList
     /\ NoPredicate /\ AllFail)
    => /\ outcome.kind = "raised"
       /\ retry_count[outcome.exc] = <<_retry_count + 1>>

\* ---- C10 ----------------------------------------------------------------
\* C10: if all retry attempts fail, the exception raised is the one caught
\* during the last attempt and its retry_count is the number of retries
\* attempted, i.e. the number of invocations after the first.
C10_RetryCountIsRetries ==
  (Finished /\ Validated /\ _retry_count >= 1 /\ AllFail
     /\ Len(f_calls) = _retry_count + 1)
    => /\ outcome = Raised(LastOf(f_calls))
       /\ retry_count[outcome.exc] = <<Len(f_calls) - 1>>

\* ---- C11 ----------------------------------------------------------------
\* C11: in every call of a sequence of calls, each of the four retry
\* parameters has the value the call supplied or else the wrap-time default
\* for as long as the call runs; no step changes the wrap-time defaults, so
\* what an earlier call supplied has no effect on a later call.
InEffect(given, default, effective) ==
  IF given # <<>> THEN effective = given[1] ELSE effective = default

C11_Step ==
  /\ closure' = closure
  /\ pc' # "idle"
       => /\ InEffect(kwargs'._retry_count, count, _retry_count')
          /\ InEffect(kwargs'._retry_backoff, backoff, _retry_backoff')
          /\ InEffect(kwargs'._retry_delay, delay, _retry_delay')
          /\ InEffect(kwargs'._retry_callback, callback, _retry_callback')

Succeeded == f_calls # <<>> /\ LastOf(f_calls) = "ok"

C12_Success ==
  Succeeded
    => /\ Finished
       /\ outcome = Returned
       /\ \A i \in 1 .. (Len(f_calls) - 1) : f_calls[i] # "ok"
       /\ Len(f_calls) <= IF _retry_count > 0 THEN _retry_count + 1 ELSE 1
       /\ Len(sleeps) = Len(f_calls) - 1
       /\ Len(callback_calls) <= Len(f_calls) - 1

C12_Witness ==
  /\ Succeeded
  /\ Finished
  /\ outcome = Returned
  /\ Len(f_calls) = 3
  /\ Len(sleeps) = 2
  /\ callback_calls = <<f_calls[1], f_calls[2]>>

\* ---- C13 ----------------------------------------------------------------
\* C13: a call that passed validation and is over has either returned the
\* result of its last attempt, or raised the very failure of its last
\* attempt, or raised the failure the predicate raised; nothing else.
C13_Propagation ==
  (Finished /\ Validated)
    => /\ f_calls # <<>>
       /\ \/ outcome = Returned /\ LastOf(f_calls) = "ok"
          \/ LastOf(f_calls) # "ok" /\ outcome = Raised(LastOf(f_calls))
          \/ LastOf(f_calls) # "ok" /\ outcome = Raised(CallbackExc)
               /\ PredicateRaised

C13_Witness ==
  /\ Finished /\ Validated
  /\ Len(f_calls) = 3
  /\ f_calls[1] # f_calls[3]
  /\ f_calls[2] # f_calls[3]
  /\ outcome = Raised(f_calls[3])

\* ---- C14 ----------------------------------------------------------------
\* C14: with an effective attempt count of 0 the call is the operation
\* called directly, whatever the deny-list and the predicate: one
\* invocation, its result returned or its failure raised without a
\* retry_count, no sleep and no predicate call.
Unannotated == \A e \in Exceptions : written[e] = <<>> /\ retry_count[e] = <<>>

C14_NoRetries ==
  (pc # "idle" /\ _retry_count = 0)
    => /\ Len(f_calls) <= 1
       /\ sleeps = <<>>
       /\ callback_calls = <<>>
       /\ Unannotated
       /\ outcome # ValueError
       /\ Finished
            => /\ Len(f_calls) = 1
               /\ outcome = IF f_calls[1] = "ok" THEN Returned
                                                ELSE Raised(f_calls[1])

C14_Witness ==
  /\ Finished
  /\ _retry_count = 0
  /\ ~NoPredicate
  /\ f_calls = <<"e3">>
  /\ DenyListed("e3")
  /\ _retry_backoff = 1
  /\ outcome = Raised("e3")

\* ---- C15 ----------------------------------------------------------------
\* C15: a call writes retry_count only in a retry step, on the failure it
\* is about to retry: a written value i + 1 belongs to the failure of an
\* attempt i that was slept after, and a call that propagates a failure
\* without having retried has written no retry_count at all.
C15_AnnotatedOnlyOnRetry ==
  /\ \A e \in Exceptions :
       written[e] # <<>>
         => \E i \in 1 .. Len(sleeps) :
              f_calls[i] = e /\ written[e] = <<i + 1>>
  /\ (Finished /\ outcome.kind = "raised" /\ sleeps = <<>>)
       => Unannotated

C15_Witness ==
  /\ Finished
  /\ outcome.kind = "raised"
  /\ _retry_count >= 2
  /\ Len(f_calls) = 1
  /\ Unannotated

\* ---- C16 ----------------------------------------------------------------
\* C16: while a second call of the same wrapper runs concurrently, a call
\* behaves as if it ran alone: its invocations, sleeps and predicate calls
\* follow the same law, and the retry_count found on the failure it
\* propagates, at the step that propagates it, is the one this call wrote
\* (none if it wrote none).
C16_Step ==
  (pc # "done" /\ pc' = "done" /\ outcome' # ValueError
     /\ other.concurrent)
    => /\ Len(f_calls') <= try_count
       /\ Len(sleeps') = Len(f_calls') - 1
       /\ Len(callback_calls') <= Len(f_calls')
       /\ (outcome'.kind = "raised" /\ outcome'.exc \in Exceptions)
            => retry_count'[outcome'.exc] = written'[outcome'.exc]

C16_Independent == [][C16_Step]_vars

\* ---- C17 ----------------------------------------------------------------
\* C17: exhaustion is evaluated before the filters: the failure of the last
\* allowed attempt is propagated as it is, the deny-list and the predicate
\* are consulted only for failures of earlier attempts.
C17_ExhaustionFirst ==
  /\ pc \in {"no_retry_check", "callback_check", "sleep", "backoff"}
       => Len(f_calls) < (IF _retry_count > 0 THEN _retry_count + 1 ELSE 1)
  /\ (Validated
        /\ Len(f_calls) = (IF _retry_count > 0 THEN _retry_count + 1 ELSE 1)
        /\ LastOf(f_calls) # "ok")
       => /\ pc \in {"raise_last", "done"}
          /\ Len(callback_calls) < Len(f_calls)
          /\ Finished => outcome = Raised(LastOf(f_calls))

C17_Witness ==
  /\ Finished
  /\ ~NoPredicate
  /\ _retry_count >= 1
  /\ Len(f_calls) = _retry_count + 1
  /\ LastOf(f_calls) = "e3"
  /\ DenyListed("e3")
  /\ outcome = Raised("e3")

\* ---- C18 ----------------------------------------------------------------
\* C18: current_try starts at 1, changes only by +1 and only in a retry
\* step, stays within 1 .. try_count = max(maxAttempts, 0) + 1 and counts
\* the invocations of the operation (the one about to be made included), so
\* the operation is invoked at most try_count times; and every call ends.
Max(a, b) == IF a >= b THEN a ELSE b

C18_Inv ==
  Validated
    => /\ try_count = Max(_retry_count, 0) + 1
       /\ current_try >= 1
       /\ current_try <= try_count
       /\ current_try = Len(f_calls) + (IF pc = "try" THEN 1 ELSE 0)
       /\ Len(f_calls) <= try_count

C18_Step ==
  /\ (pc = "idle" /\ pc' \notin {"idle", "done"}) => current_try' = 1
  /\ (pc # "idle" /\ current_try' # current_try)
       => /\ pc = "backoff"
          /\ current_try' = current_try + 1
          /\ Len(sleeps) = current_try

C18_Attempts ==
  /\ []C18_Inv
  /\ [][C18_Step]_vars
  /\ (pc # "done") ~> (pc = "done")

C18_Witness ==
  /\ pc = "try"
  /\ current_try = try_count
  /\ try_count >= 3
  /\ Len(f_calls) = try_count - 1

\* ---- C19 ----------------------------------------------------------------
\* C19: sleeps and invocations alternate: exactly one sleep between two
\* consecutive invocations, none before the first attempt, none after a
\* success, none between the last failure and its propagation; a finished
\* call has slept (number of invocations - 1) times.
C19_Alternation ==
  /\ pc = "try" => Len(sleeps) = Len(f_calls)
  /\ pc \in {"no_retry_check", "callback_check", "sleep", "raise_last"}
       => Len(sleeps) = Len(f_calls) - 1
  /\ pc = "backoff" => Len(sleeps) = Len(f_calls)
  /\ (Finished /\ Validated) => Len(sleeps) = Len(f_calls) - 1
  /\ (Finished /\ ~Validated) => sleeps = <<>> /\ f_calls = <<>>
  /\ pc = "idle" => sleeps = <<>> /\ f_calls = <<>>

C19_Witness ==
  /\ Finished /\ Validated
  /\ outcome.kind = "raised"
  /\ Len(f_calls) = 3
  /\ Len(sleeps) = 2

\* ---- C20 ----------------------------------------------------------------
\* C20: current_delay is bound exactly in calls whose attempt count is > 0,
\* and only those calls reach the sleep and the backoff: no call reads
\* current_delay while it is unbound.
C20_DelayBound ==
  /\ Validated => (current_delay # <<>> <=> _retry_count > 0)
  /\ pc \in {"sleep", "backoff"}
       => current_delay # <<>> /\ _retry_count > 0
  /\ outcome # Raised(UnboundLocalError)

C20_Witness ==
  /\ Finished
  /\ _retry_count <= 0
  /\ no_retry_list # <<>>
  /\ ~NoPredicate
  /\ current_delay = <<>>
  /\ outcome.kind = "raised"
  /\ sleeps = <<>>

====
